---- MODULE Spec2Model ----
(***************************************************************************)
(* The token-sale ledger of src/src/lib.rs: one storage account holding an *)
(* ICOAccount record, and the entry point process_instruction that decodes *)
(* it, runs one of five operations on the decoded copy and writes the copy *)
(* back only when the operation returned Ok.                               *)
(*                                                                         *)
(* Conventions.                                                            *)
(*  - A u64 is a number in 0..U64_MAX.  TLC's integers are 32 bits wide,   *)
(*    so the word is modelled WordBits wide; the literals of the program   *)
(*    (10000, 100, 200, their products) fit in it.                         *)
(*  - `+=`, `-=` and `*` on u64 panic on overflow when the build has       *)
(*    overflow checks (cargo's dev profile) and wrap when it has not       *)
(*    (cargo's release profile, the one an on-chain build uses by          *)
(*    default).  The build is chosen once, in Init (overflow_checks).      *)
(*  - The borsh codec and the host runtime are outside the repository.     *)
(*    The codec is taken to be a faithful round trip of the record at any  *)
(*    size (the storage account has room for what serialize writes and     *)
(*    try_from_slice reads it back), and a call that returns an error or   *)
(*    panics has none of its account writes kept by the host.  The host's  *)
(*    own checks on lamports are not modelled.                             *)
(*  - Three specifications: Spec starts from the zero-filled storage       *)
(*    account; SpecAny starts from a storage account that already holds a  *)
(*    ledger, the stored bytes being an input of process_instruction;      *)
(*    SpecToggle starts from ledgers with a pre-sale roster and follows    *)
(*    sequences of calls on them.                                          *)
(***************************************************************************)
EXTENDS Integers, Sequences, FiniteSets, TLC

VARIABLES
    ico_data,         \* the ICOAccount stored in the storage account's data
    ico_lamports,     \* the lamports of the storage account
    overflow_checks,  \* TRUE: arithmetic overflow panics; FALSE: it wraps
    last,             \* what the latest call was given and what it returned
    calls,            \* number of calls made so far
    budget            \* number of calls the run explores

vars == <<ico_data, ico_lamports, overflow_checks, last, calls, budget>>

----------------------------------------------------------------------------
\* Bounds of the model.

WordBits == 24
MaxCalls == 4
MaxCallsAny == 1
MaxDiff == 2
MaxCallsToggle == 2

U64 == 2 ^ WordBits
U64_MAX == U64 - 1

----------------------------------------------------------------------------
\* Identities (Pubkey values).

program_id == "PROG"
ico_key == "ICO"
other_key == "Y"
default_pubkey == "ZERO"
system_owner == "SYS"
loader_owner == "LOADER"

----------------------------------------------------------------------------
\* u64 arithmetic.  Each operator gives the wrapped value; the matching
\* ...Overflows operator tells whether the exact result leaves 0..U64_MAX.

AddOverflows(a, b) == a + b > U64_MAX
WrappingAdd(a, b) == (a + b) % U64

SubOverflows(a, b) == a < b
WrappingSub(a, b) == (a - b) % U64

MulOverflows(a, b) == a # 0 /\ b > U64_MAX \div a

RECURSIVE WrappingMul(_, _)
WrappingMul(a, b) ==
    IF b = 0 THEN 0
    ELSE LET half == WrappingMul(a, b \div 2)
             twice == (half + half) % U64
         IN  IF b % 2 = 1 THEN (twice + a) % U64 ELSE twice

\* `x as u64` for an i64 x (two's complement reinterpretation).
as_u64(x) == x % U64

\* u64::to_le_bytes and u64::from_le_bytes.
RECURSIVE LeBytes(_, _)
LeBytes(v, n) == IF n = 0 THEN <<>> ELSE <<v % 256>> \o LeBytes(v \div 256, n - 1)

to_le_bytes(v) == LeBytes(v, 8)

RECURSIVE from_le_bytes(_)
from_le_bytes(bytes) ==
    IF bytes = <<>> THEN 0 ELSE Head(bytes) + 256 * from_le_bytes(Tail(bytes))

----------------------------------------------------------------------------
\* The records of the program.

\* The ICOAccount a zero-filled storage account decodes to.
EmptyICOAccount ==
    [ total_supply       |-> 0,
      admin              |-> default_pubkey,
      balance            |-> <<>>,
      pre_sale_price     |-> 0,
      pre_sale_limit     |-> 0,
      sale_price         |-> 0,
      sale_limit         |-> 0,
      sale_start_time    |-> 0,
      sale_end_time      |-> 0,
      total_price_earned |-> 0,
      pre_sale_account   |-> <<>>,
      sale_account       |-> <<>> ]

PreSaleAccount(address, token_amount, token_price, whitelist_account) ==
    [ address |-> address, token_amount |-> token_amount,
      token_price |-> token_price, whitelist_account |-> whitelist_account ]

SaleAccount(address, token_amount, token_price) ==
    [ address |-> address, token_amount |-> token_amount,
      token_price |-> token_price ]

\* PreSaleAccount::whitelist
\* A variant of whitelist that sets the flag instead of flipping it.
whitelist_sets(pre_sale_account) ==
    [pre_sale_account EXCEPT !.whitelist_account = TRUE]

whitelist(pre_sale_account) ==
    [pre_sale_account EXCEPT !.whitelist_account = ~ @]

\* A variant of DataPrefix for a record that starts with pre_sale_price.
DataPrefix_price_first(ico_state) == to_le_bytes(ico_state.pre_sale_price)

\* The first 8 bytes of the encoded ICOAccount: borsh writes the fields in
\* declaration order and a u64 as its little-endian bytes.
DataPrefix(ico_state) == to_le_bytes(ico_state.total_supply)

\* An AccountInfo as the operations read it.  data is the decoded view of
\* the account's bytes: an ICOAccount for the storage account, NoData for
\* an account whose data no operation reads.
NoData == <<>>

AccountInfo(key, owner, lamports, data) ==
    [key |-> key, owner |-> owner, lamports |-> lamports, data |-> data]

----------------------------------------------------------------------------
\* Results of a function: ProgramResult plus the state it leaves in memory.
\* `site` names the return statement taken; a purchase also reports the
\* buyer account's lamports in memory, the amount read and the cost
\* computed (0 where not yet computed).

Ret(res, site, st, lamports, amount, total_cost) ==
    [ res |-> res, site |-> site, st |-> st, lamports |-> lamports,
      amount |-> amount, total_cost |-> total_cost ]

Ok(st) == Ret("Ok", "Ok", st, 0, 0, 0)
Err(res, site, st) == Ret(res, site, st, 0, 0, 0)
Panic(site, st) == Ret("Panic", site, st, 0, 0, 0)

\* Iterator::find over a list of (Pubkey, u64) or of roster entries: the
\* index of the first match, 0 when there is none.
FindBalance(balance, key) ==
    IF \E i \in 1..Len(balance) : balance[i][1] = key
    THEN CHOOSE i \in 1..Len(balance) :
            /\ balance[i][1] = key
            /\ \A j \in 1..(i - 1) : balance[j][1] # key
    ELSE 0

FindAddress(roster, key) ==
    IF \E i \in 1..Len(roster) : roster[i].address = key
    THEN CHOOSE i \in 1..Len(roster) :
            /\ roster[i].address = key
            /\ \A j \in 1..(i - 1) : roster[j].address # key
    ELSE 0

\* next_account_info on an iterator that has nothing left.
NotEnoughAccountKeys(st) == Err("NotEnoughAccountKeys", "NotEnoughAccountKeys", st)

----------------------------------------------------------------------------
\* The operations.

\* A variant of intialize_ico that credits the admin with the supply the
\* ledger held before the call.
intialize_ico_stale_supply(pid, ico_state, account_iter) ==
    IF account_iter = <<>> THEN NotEnoughAccountKeys(ico_state)
    ELSE
    LET admin_account == Head(account_iter) IN
    IF admin_account.key # pid
    THEN Err("InvalidAccountData", "Unauthorized", ico_state)
    ELSE Ok([ico_state EXCEPT
                !.admin = admin_account.key,
                !.total_supply = 10000,
                !.pre_sale_price = 100,
                !.pre_sale_limit = 50,
                !.sale_price = 200,
                !.sale_limit = 100,
                !.sale_start_time = 0,
                !.sale_end_time = 100,
                !.balance = Append(@, <<admin_account.key, ico_state.total_supply>>)])

intialize_ico(pid, ico_state, account_iter) ==
    IF account_iter = <<>> THEN NotEnoughAccountKeys(ico_state)
    ELSE
    LET admin_account == Head(account_iter) IN
    IF admin_account.key # pid
    THEN Err("InvalidAccountData", "Unauthorized", ico_state)
    ELSE Ok([ico_state EXCEPT
                !.admin = admin_account.key,
                !.total_supply = 10000,
                !.pre_sale_price = 100,
                !.pre_sale_limit = 50,
                !.sale_price = 200,
                !.sale_limit = 100,
                !.sale_start_time = 0,
                !.sale_end_time = 100,
                !.balance = Append(@, <<admin_account.key, 10000>>)])

\* A variant of mint_tokens that also raises total_supply by the amount.
mint_tokens_raises_supply(ico_state, recipient_accounts, amount) ==
    LET i == FindBalance(ico_state.balance, recipient_accounts)
        total_supply == WrappingAdd(ico_state.total_supply, amount)
    IN
    IF i # 0
    THEN LET balance == ico_state.balance[i][2] IN
         IF AddOverflows(balance, amount) /\ overflow_checks
         THEN Panic("mint_add", ico_state)
         ELSE Ok([ico_state EXCEPT !.balance[i][2] = WrappingAdd(balance, amount),
                                   !.total_supply = total_supply])
    ELSE Ok([ico_state EXCEPT
                !.balance = Append(@, <<recipient_accounts, amount>>),
                !.total_supply = total_supply])

mint_tokens(ico_state, recipient_accounts, amount) ==
    LET i == FindBalance(ico_state.balance, recipient_accounts) IN
    IF i # 0
    THEN LET balance == ico_state.balance[i][2] IN
         IF AddOverflows(balance, amount) /\ overflow_checks
         THEN Panic("mint_add", ico_state)
         ELSE Ok([ico_state EXCEPT !.balance[i][2] = WrappingAdd(balance, amount)])
    ELSE Ok([ico_state EXCEPT
                !.balance = Append(@, <<recipient_accounts, amount>>)])

whitelist_account(ico_state, account_to_whitelist) ==
    LET i == FindAddress(ico_state.pre_sale_account, account_to_whitelist) IN
    IF i # 0
    THEN Ok([ico_state EXCEPT !.pre_sale_account[i] = whitelist(@)])
    ELSE Err("InvalidAccountData", "NotFound", ico_state)

\* The roster loop of a purchase (lib.rs 184-188, 237-241): every entry of
\* the buyer has `token_amount += amount`.
RosterOverflows(roster, key, amount) ==
    \E i \in 1..Len(roster) :
        roster[i].address = key /\ AddOverflows(roster[i].token_amount, amount)

\* A variant of AddToRoster that appends an entry for a buyer the roster
\* does not hold yet.
AddToRoster_appending(roster, key, amount) ==
    IF \A i \in 1..Len(roster) : roster[i].address # key
    THEN Append(roster, SaleAccount(key, amount, 0))
    ELSE [i \in 1..Len(roster) |->
            IF roster[i].address = key
            THEN [roster[i] EXCEPT !.token_amount = WrappingAdd(@, amount)]
            ELSE roster[i]]

AddToRoster(roster, key, amount) ==
    [i \in 1..Len(roster) |->
        IF roster[i].address = key
        THEN [roster[i] EXCEPT !.token_amount = WrappingAdd(@, amount)]
        ELSE roster[i]]

\* The part the two purchases share once the roster is updated (lib.rs
\* 190-214 and 243-267): debit the buyer's lamports, credit the buyer's
\* balance entry, debit the admin's, add the cost to total_price_earned.
\* ico_state already holds the updated roster.
transfer_tokens(ico_state, buyer_account, amount, total_cost) ==
    LET lamports == WrappingSub(buyer_account.lamports, total_cost)
        b == FindBalance(ico_state.balance, buyer_account.key)
    IN
    IF SubOverflows(buyer_account.lamports, total_cost) /\ overflow_checks
    THEN Ret("Panic", "lamports_sub", ico_state, buyer_account.lamports, amount, total_cost)
    ELSE IF b = 0
    THEN Ret("InvalidAccountData", "BuyerNotFound", ico_state, lamports, amount, total_cost)
    ELSE IF AddOverflows(ico_state.balance[b][2], amount) /\ overflow_checks
    THEN Ret("Panic", "buyer_add", ico_state, lamports, amount, total_cost)
    ELSE
    LET st1 == [ico_state EXCEPT !.balance[b][2] = WrappingAdd(@, amount)]
        a == FindBalance(st1.balance, st1.admin)
    IN
    IF a = 0
    THEN Ret("InvalidAccountData", "AdminNotFound", st1, lamports, amount, total_cost)
    ELSE IF SubOverflows(st1.balance[a][2], amount) /\ overflow_checks
    THEN Ret("Panic", "admin_sub", st1, lamports, amount, total_cost)
    ELSE
    LET st2 == [st1 EXCEPT !.balance[a][2] = WrappingSub(@, amount)] IN
    IF AddOverflows(st2.total_price_earned, total_cost) /\ overflow_checks
    THEN Ret("Panic", "earned_add", st2, lamports, amount, total_cost)
    ELSE Ret("Ok", "Ok",
                [st2 EXCEPT !.total_price_earned = WrappingAdd(@, total_cost)],
                lamports, amount, total_cost)

\* The window test of pre_sale (lib.rs 159): TRUE when the call is refused.
PreSaleWindowClosed(ico_state, current_time) ==
    current_time > ico_state.sale_start_time

\* A variant of is_whiltelisted that accepts any roster entry of the buyer,
\* whatever its flag.
is_whiltelisted_any_entry(ico_state, buyer_account_info) ==
    \E i \in 1..Len(ico_state.pre_sale_account) :
        ico_state.pre_sale_account[i].address = buyer_account_info

\* The whitelist scan of pre_sale (lib.rs 163-170).
is_whiltelisted(ico_state, buyer_account_info) ==
    \E i \in 1..Len(ico_state.pre_sale_account) :
        /\ ico_state.pre_sale_account[i].address = buyer_account_info
        /\ ico_state.pre_sale_account[i].whitelist_account

\* A variant of pre_sale that looks the buyer up on the roster before it
\* tests the window.
pre_sale_whitelist_first(ico_state, accounts, unix_timestamp) ==
    IF accounts = <<>> THEN NotEnoughAccountKeys(ico_state)
    ELSE
    LET buyer_account == Head(accounts)
        current_time == as_u64(unix_timestamp)
    IN
    IF ~ is_whiltelisted(ico_state, buyer_account.key)
    THEN Ret("InvalidAccountData", "NotWhitelisted", ico_state, buyer_account.lamports, 0, 0)
    ELSE IF PreSaleWindowClosed(ico_state, current_time)
    THEN Ret("InvalidInstructionData", "WindowClosed", ico_state, buyer_account.lamports, 0, 0)
    ELSE
    LET amount == from_le_bytes(SubSeq(DataPrefix(buyer_account.data), 1, 8)) IN
    IF MulOverflows(amount, ico_state.pre_sale_price) /\ overflow_checks
    THEN Ret("Panic", "cost_mul", ico_state, buyer_account.lamports, amount, 0)
    ELSE
    LET total_cost == WrappingMul(amount, ico_state.pre_sale_price) IN
    IF total_cost # buyer_account.lamports
    THEN Ret("InvalidAccountData", "PaymentMismatch", ico_state, buyer_account.lamports, amount, total_cost)
    ELSE IF RosterOverflows(ico_state.pre_sale_account, buyer_account.key, amount) /\ overflow_checks
    THEN Ret("Panic", "roster_add", ico_state, buyer_account.lamports, amount, total_cost)
    ELSE transfer_tokens(
            [ico_state EXCEPT !.pre_sale_account = AddToRoster(@, buyer_account.key, amount)],
            buyer_account, amount, total_cost)

pre_sale(ico_state, accounts, unix_timestamp) ==
    IF accounts = <<>> THEN NotEnoughAccountKeys(ico_state)
    ELSE
    LET buyer_account == Head(accounts)
        current_time == as_u64(unix_timestamp)
    IN
    IF PreSaleWindowClosed(ico_state, current_time)
    THEN Ret("InvalidInstructionData", "WindowClosed", ico_state, buyer_account.lamports, 0, 0)
    ELSE IF ~ is_whiltelisted(ico_state, buyer_account.key)
    THEN Ret("InvalidAccountData", "NotWhitelisted", ico_state, buyer_account.lamports, 0, 0)
    ELSE
    LET amount == from_le_bytes(SubSeq(DataPrefix(buyer_account.data), 1, 8)) IN
    IF MulOverflows(amount, ico_state.pre_sale_price) /\ overflow_checks
    THEN Ret("Panic", "cost_mul", ico_state, buyer_account.lamports, amount, 0)
    ELSE
    LET total_cost == WrappingMul(amount, ico_state.pre_sale_price) IN
    IF total_cost # buyer_account.lamports
    THEN Ret("InvalidAccountData", "PaymentMismatch", ico_state, buyer_account.lamports, amount, total_cost)
    ELSE IF RosterOverflows(ico_state.pre_sale_account, buyer_account.key, amount) /\ overflow_checks
    THEN Ret("Panic", "roster_add", ico_state, buyer_account.lamports, amount, total_cost)
    ELSE transfer_tokens(
            [ico_state EXCEPT !.pre_sale_account = AddToRoster(@, buyer_account.key, amount)],
            buyer_account, amount, total_cost)

\* A variant of SaleWindowClosed that also refuses a call after the end of
\* the sale.
SaleWindowClosed_with_end(ico_state, current_time) ==
    \/ current_time < ico_state.sale_start_time
    \/ ico_state.sale_start_time >= ico_state.sale_end_time
    \/ current_time > ico_state.sale_end_time

\* The window test of sale (lib.rs 223-224): TRUE when the call is refused.
SaleWindowClosed(ico_state, current_time) ==
    \/ current_time < ico_state.sale_start_time
    \/ ico_state.sale_start_time >= ico_state.sale_end_time

sale(ico_state, accounts, unix_timestamp) ==
    IF accounts = <<>> THEN NotEnoughAccountKeys(ico_state)
    ELSE
    LET buyer_account == Head(accounts)
        current_time == as_u64(unix_timestamp)
    IN
    IF SaleWindowClosed(ico_state, current_time)
    THEN Ret("InvalidInstructionData", "WindowClosed", ico_state, buyer_account.lamports, 0, 0)
    ELSE
    LET amount == from_le_bytes(SubSeq(DataPrefix(buyer_account.data), 1, 8)) IN
    IF MulOverflows(amount, ico_state.sale_price) /\ overflow_checks
    THEN Ret("Panic", "cost_mul", ico_state, buyer_account.lamports, amount, 0)
    ELSE
    LET total_cost == WrappingMul(amount, ico_state.sale_price) IN
    IF total_cost # buyer_account.lamports
    THEN Ret("InvalidAccountData", "PaymentMismatch", ico_state, buyer_account.lamports, amount, total_cost)
    ELSE IF RosterOverflows(ico_state.sale_account, buyer_account.key, amount) /\ overflow_checks
    THEN Ret("Panic", "roster_add", ico_state, buyer_account.lamports, amount, total_cost)
    ELSE transfer_tokens(
            [ico_state EXCEPT !.sale_account = AddToRoster(@, buyer_account.key, amount)],
            buyer_account, amount, total_cost)

----------------------------------------------------------------------------
\* The entry point.

\* The match on instruction_data[0] (lib.rs 69-90), on the decoded copy
\* ico_state.  The result of intialize_ico is dropped by the caller, so
\* opcode 0 always reaches the write-back; `site` keeps what it returned.
Dispatch(pid, ico_state, accounts, instruction_data, unix_timestamp) ==
    LET ico_accounts == Head(accounts)
        account_iter == Tail(accounts)
        opcode == Head(instruction_data)
        keep(r) == [r EXCEPT !.lamports = ico_accounts.lamports]
    IN
    CASE opcode = 0 ->
            LET r == intialize_ico(pid, ico_state, account_iter)
            IN  keep([r EXCEPT !.res = "Ok"])
      [] opcode = 1 ->
            IF account_iter = <<>> THEN keep(NotEnoughAccountKeys(ico_state))
            ELSE IF Len(instruction_data) < 9
            THEN keep(Panic("data_slice", ico_state))
            ELSE keep(mint_tokens(ico_state, Head(account_iter).key,
                        from_le_bytes(SubSeq(instruction_data, 2, 9))))
      [] opcode = 2 -> pre_sale(ico_state, accounts, unix_timestamp)
      [] opcode = 3 -> sale(ico_state, accounts, unix_timestamp)
      [] opcode = 4 ->
            IF account_iter = <<>> THEN keep(NotEnoughAccountKeys(ico_state))
            ELSE keep(whitelist_account(ico_state, Head(account_iter).key))
      [] OTHER ->
            keep(Err("InvalidInstructionData", "InvalidOperation", ico_state))

\* What a call leaves behind: the result the caller sees, the return
\* statement taken, the storage account's data and lamports afterwards,
\* and the copy as it was in memory when the call returned.
Outcome(res, site, data, lamports, mem, amount, total_cost) ==
    [ res |-> res, site |-> site, data |-> data, lamports |-> lamports,
      mem |-> mem, amount |-> amount, total_cost |-> total_cost ]

\* A variant of WriteBack that serializes the copy whatever the operation
\* returned (used to test the claims against a plausible slip).
WriteBack_always(ico_accounts, r) ==
    Outcome(r.res, r.site, r.st, r.lamports, r.st, r.amount, r.total_cost)

\* The end of process_instruction: an operation that returned an error or
\* panicked leaves through `?` (lib.rs 74-89) before the serialize of line
\* 92, and the host keeps nothing of a failed call; otherwise the copy is
\* written to the account.
WriteBack(ico_accounts, r) ==
    IF r.res = "Ok"
    THEN Outcome("Ok", r.site, r.st, r.lamports, r.st, r.amount, r.total_cost)
    ELSE Outcome(r.res, r.site, ico_accounts.data, ico_accounts.lamports,
                 r.st, r.amount, r.total_cost)

\* A variant of process_instruction that rejects an unknown opcode before it
\* looks at the owner of the storage account.
process_instruction_opcode_first(pid, accounts, instruction_data, unix_timestamp) ==
    IF accounts = <<>>
    THEN Outcome("NotEnoughAccountKeys", "NotEnoughAccountKeys",
                 NoData, 0, NoData, 0, 0)
    ELSE
    LET ico_accounts == Head(accounts)
        unchanged(res, site, mem) ==
            Outcome(res, site, ico_accounts.data, ico_accounts.lamports, mem, 0, 0)
    IN
    IF instruction_data = <<>>
    THEN unchanged("Panic", "opcode_index", ico_accounts.data)
    ELSE IF Head(instruction_data) \notin 0..4
    THEN unchanged("InvalidInstructionData", "InvalidOperation", ico_accounts.data)
    ELSE IF ico_accounts.owner # pid
    THEN unchanged("IncorrectProgramId", "WrongOwner", ico_accounts.data)
    ELSE WriteBack(ico_accounts,
            Dispatch(pid, ico_accounts.data, accounts, instruction_data,
                     unix_timestamp))

process_instruction(pid, accounts, instruction_data, unix_timestamp) ==
    IF accounts = <<>>
    THEN Outcome("NotEnoughAccountKeys", "NotEnoughAccountKeys",
                 NoData, 0, NoData, 0, 0)
    ELSE
    LET ico_accounts == Head(accounts)
        unchanged(res, site, mem) ==
            Outcome(res, site, ico_accounts.data, ico_accounts.lamports, mem, 0, 0)
    IN
    IF ico_accounts.owner # pid
    THEN unchanged("IncorrectProgramId", "WrongOwner", ico_accounts.data)
    ELSE
    LET ico_state == ico_accounts.data IN
    IF instruction_data = <<>>
    THEN unchanged("Panic", "opcode_index", ico_state)
    ELSE WriteBack(ico_accounts,
            Dispatch(pid, ico_state, accounts, instruction_data, unix_timestamp))

----------------------------------------------------------------------------
\* Inputs of a call.

\* Amounts a mint instruction carries.
MintAmounts == {1, U64_MAX}

\* Clock::get()?.unix_timestamp values (an i64).
Timestamps == {-1, 0, 1}

\* Lamports transferred to the storage account before a purchase.
Deposits == {0, 2000000}

\* Instruction data: each opcode without payload, an unknown opcode, no
\* bytes at all, and mint with its 8-byte amount.
MintData == {<<1>> \o to_le_bytes(a) : a \in MintAmounts}
InstructionData ==
    {<<>>, <<0>>, <<1>>, <<2>>, <<3>>, <<4>>, <<5>>} \cup MintData

\* The storage account as a call receives it.
StorageAccount(owner, deposit) ==
    AccountInfo(ico_key, owner, ico_lamports + deposit, ico_data)

\* Accounts a caller may pass after the storage account: the program's own
\* account, some other wallet, and the storage account again.
ProgramAccount == AccountInfo(program_id, loader_owner, 0, NoData)
WalletAccount == AccountInfo(other_key, system_owner, 0, NoData)
SecondAccounts == {ProgramAccount, WalletAccount, StorageAccount(program_id, 0)}

NoCall ==
    [ op |-> -1, res |-> "None", site |-> "None", mem |-> NoData,
      amount |-> 0, total_cost |-> 0, current_time |-> 0, paid |-> 0,
      owner |-> "None", target |-> "None", arg |-> 0,
      again |-> FALSE, before |-> NoData ]

----------------------------------------------------------------------------
\* One call of the entry point.

\* The call reaches whitelist_account with a target: the storage account is
\* owned by the program, the opcode is 4 and a second account is supplied.
IsToggle(accounts, instruction_data) ==
    /\ Len(accounts) >= 2
    /\ Head(accounts).owner = program_id
    /\ instruction_data # <<>>
    /\ Head(instruction_data) = 4

\* last.again tells that this call and the one before it both reached
\* whitelist_account with the same target; last.before is the ledger a
\* call that reached whitelist_account found in the storage account.
Invoke(accounts, instruction_data, unix_timestamp) ==
    /\ calls < budget
    /\ \E o \in {process_instruction(program_id, accounts, instruction_data,
                                     unix_timestamp)} :
       /\ ico_data' = IF accounts = <<>> THEN ico_data ELSE o.data
       /\ ico_lamports' = IF accounts = <<>> THEN ico_lamports ELSE o.lamports
       /\ last' =
            [ op |-> IF instruction_data = <<>> THEN -1 ELSE Head(instruction_data),
              res |-> o.res,
              site |-> o.site,
              mem |-> o.mem,
              amount |-> o.amount,
              total_cost |-> o.total_cost,
              current_time |-> as_u64(unix_timestamp),
              paid |-> IF accounts = <<>> THEN 0 ELSE Head(accounts).lamports,
              owner |-> IF accounts = <<>> THEN "None" ELSE Head(accounts).owner,
              target |-> IF Len(accounts) < 2 THEN "None" ELSE accounts[2].key,
              arg |-> IF Len(instruction_data) < 9 THEN 0
                      ELSE from_le_bytes(SubSeq(instruction_data, 2, 9)),
              again |-> /\ IsToggle(accounts, instruction_data)
                        /\ last.before # NoData
                        /\ last.target = accounts[2].key,
              before |-> IF IsToggle(accounts, instruction_data)
                         THEN ico_data ELSE NoData ]
    /\ calls' = calls + 1
    /\ UNCHANGED <<overflow_checks, budget>>

\* Opcode 0, with and without a second account.
Initialize ==
    \E accounts \in {<<StorageAccount(program_id, 0)>>}
                    \cup {<<StorageAccount(program_id, 0), a>> : a \in SecondAccounts} :
        Invoke(accounts, <<0>>, 0)

\* Opcode 1: to each recipient with each amount, without a recipient
\* account, and without the amount bytes.
Mint ==
    \/ \E a \in SecondAccounts : \E instruction_data \in MintData :
            Invoke(<<StorageAccount(program_id, 0), a>>, instruction_data, 0)
    \/ \E instruction_data \in MintData :
            Invoke(<<StorageAccount(program_id, 0)>>, instruction_data, 0)
    \/ Invoke(<<StorageAccount(program_id, 0), WalletAccount>>, <<1>>, 0)

\* Accounts a caller may pass after the storage account in a purchase:
\* none, or a wallet.
PurchaseAccounts == {<<>>, <<WalletAccount>>}

\* Opcode 2.
PreSale ==
    \E deposit \in Deposits :
        /\ ico_lamports + deposit <= U64_MAX
        /\ \E unix_timestamp \in Timestamps : \E rest \in PurchaseAccounts :
                Invoke(<<StorageAccount(program_id, deposit)>> \o rest, <<2>>,
                       unix_timestamp)

\* Opcode 3.
Sale ==
    \E deposit \in Deposits :
        /\ ico_lamports + deposit <= U64_MAX
        /\ \E unix_timestamp \in Timestamps : \E rest \in PurchaseAccounts :
                Invoke(<<StorageAccount(program_id, deposit)>> \o rest, <<3>>,
                       unix_timestamp)

\* Opcode 4, with and without a target account.
Whitelist ==
    \E accounts \in {<<StorageAccount(program_id, 0)>>}
                    \cup {<<StorageAccount(program_id, 0), a>> : a \in SecondAccounts} :
        Invoke(accounts, <<4>>, 0)

\* An opcode outside 0..4, or no instruction data at all.
Malformed ==
    \E instruction_data \in {<<>>, <<5>>} :
        Invoke(<<StorageAccount(program_id, 0)>>, instruction_data, 0)

\* Any instruction on a storage account the program does not own, or with
\* no account at all.
Rejected ==
    \/ \E instruction_data \in InstructionData :
            Invoke(<<StorageAccount(system_owner, 0), ProgramAccount>>, instruction_data, 0)
    \/ Invoke(<<>>, <<0>>, 0)

Init ==
    /\ ico_data = EmptyICOAccount
    /\ ico_lamports = 0
    /\ overflow_checks \in BOOLEAN
    /\ last = NoCall
    /\ calls = 0
    /\ budget = MaxCalls

Next ==
    \/ Initialize
    \/ Mint
    \/ PreSale
    \/ Sale
    \/ Whitelist
    \/ Malformed
    \/ Rejected

Spec == Init /\ [][Next]_vars

----------------------------------------------------------------------------
\* A second specification: the storage account already holds a ledger when
\* the first call arrives.  The ledgers are those that differ from
\* BaseLedger in at most MaxDiff of the fields varied below; BaseLedger is
\* an initialized ledger whose sale has not started, with the storage
\* account's identity on both rosters and holding a balance entry.

HalfWord == U64 \div 2

BaseLedger ==
    [ total_supply       |-> 3,
      admin              |-> program_id,
      balance            |-> <<<<ico_key, 0>>, <<program_id, 10>>>>,
      pre_sale_price     |-> 100,
      pre_sale_limit     |-> 50,
      sale_price         |-> 200,
      sale_limit         |-> 100,
      sale_start_time    |-> 1,
      sale_end_time      |-> 100,
      total_price_earned |-> 0,
      pre_sale_account   |-> <<PreSaleAccount(ico_key, 0, 100, TRUE)>>,
      sale_account       |-> <<SaleAccount(ico_key, 0, 200)>> ]

\* The exact price of BaseLedger's pre-sale purchase.
BaseLamports == BaseLedger.total_supply * BaseLedger.pre_sale_price

AnySupply == {3, HalfWord}
AnyBalance ==
    { <<<<ico_key, 0>>, <<program_id, 10>>>>,
      <<>>,
      <<<<ico_key, 0>>>>,
      <<<<program_id, 10>>>>,
      <<<<ico_key, 0>>, <<program_id, 1>>>>,
      <<<<ico_key, U64_MAX>>, <<program_id, 10>>>> }
AnyEndTime == {100, 1}
AnyEarned == {0, U64_MAX}
AnyPreSaleRoster ==
    { <<PreSaleAccount(ico_key, 0, 100, TRUE)>>,
      <<>>,
      <<PreSaleAccount(ico_key, 0, 100, FALSE)>>,
      <<PreSaleAccount(ico_key, 1, 100, FALSE), PreSaleAccount(ico_key, 0, 100, TRUE)>> }
AnySaleRoster == { <<SaleAccount(ico_key, 0, 200)>>, <<>> }
AnyLamports == {300, 0, 600}

Differs(a, b) == IF a = b THEN 0 ELSE 1

AnyLedgers ==
    { x \in [ total_supply : AnySupply, balance : AnyBalance,
              sale_end_time : AnyEndTime, total_price_earned : AnyEarned,
              pre_sale_account : AnyPreSaleRoster, sale_account : AnySaleRoster,
              lamports : AnyLamports ] :
        Differs(x.total_supply, BaseLedger.total_supply)
          + Differs(x.balance, BaseLedger.balance)
          + Differs(x.sale_end_time, BaseLedger.sale_end_time)
          + Differs(x.total_price_earned, BaseLedger.total_price_earned)
          + Differs(x.pre_sale_account, BaseLedger.pre_sale_account)
          + Differs(x.sale_account, BaseLedger.sale_account)
          + Differs(x.lamports, BaseLamports) <= MaxDiff }

InitAny ==
    /\ \E x \in AnyLedgers :
          /\ ico_data = [BaseLedger EXCEPT
                            !.total_supply = x.total_supply,
                            !.balance = x.balance,
                            !.sale_end_time = x.sale_end_time,
                            !.total_price_earned = x.total_price_earned,
                            !.pre_sale_account = x.pre_sale_account,
                            !.sale_account = x.sale_account]
          /\ ico_lamports = x.lamports
    /\ overflow_checks \in BOOLEAN
    /\ last = NoCall
    /\ calls = 0
    /\ budget = MaxCallsAny

SpecAny == InitAny /\ [][Next]_vars

----------------------------------------------------------------------------
\* A third specification, for sequences of calls on a ledger whose pre-sale
\* roster has entries: BaseLedger with each of the rosters below, and
\* MaxCallsToggle calls.

ToggleRosters ==
    AnyPreSaleRoster \cup
    { <<PreSaleAccount(other_key, 0, 100, FALSE), PreSaleAccount(ico_key, 0, 100, TRUE)>>,
      <<PreSaleAccount(other_key, 0, 100, TRUE), PreSaleAccount(other_key, 0, 100, FALSE)>> }

InitToggle ==
    /\ \E roster \in ToggleRosters :
          ico_data = [BaseLedger EXCEPT !.pre_sale_account = roster]
    /\ ico_lamports = BaseLamports
    /\ overflow_checks \in BOOLEAN
    /\ last = NoCall
    /\ calls = 0
    /\ budget = MaxCallsToggle

SpecToggle == InitToggle /\ [][Next]_vars

----------------------------------------------------------------------------
\* Vocabulary of the properties.

\* The buyer of a purchase: pre_sale and sale take the first account of the
\* list process_instruction was given, which is the storage account.
Buyer == ico_key

RECURSIVE SumBalances(_)
SumBalances(balance) ==
    IF balance = <<>> THEN 0 ELSE Head(balance)[2] + SumBalances(Tail(balance))

RECURSIVE TotalOf(_, _)
TotalOf(balance, key) ==
    IF balance = <<>> THEN 0
    ELSE (IF Head(balance)[1] = key THEN Head(balance)[2] ELSE 0)
            + TotalOf(Tail(balance), key)

\* The latest call reached the match of process_instruction with this opcode.
Dispatched(l, opcode) == l.op = opcode /\ l.owner = program_id

IsPurchase(l) == Dispatched(l, 2) \/ Dispatched(l, 3)

PriceOf(st, l) == IF l.op = 2 THEN st.pre_sale_price ELSE st.sale_price

----------------------------------------------------------------------------
\* C1. Conservation of supply: in every reachable state the amounts of all
\* balance entries add up to total_supply.
C1_SupplyConserved ==
    SumBalances(ico_data.balance) = ico_data.total_supply

\* C2. Unique balance keys: the balance list never holds two entries with
\* the same identity.
C2_UniqueBalanceKeys ==
    \A i, j \in 1..Len(ico_data.balance) :
        i # j => ico_data.balance[i][1] # ico_data.balance[j][1]

\* C3. All-or-nothing calls: a call that does not return Ok (an error or a
\* panic) leaves the stored ledger exactly as it was, whatever the
\* operation had already changed in its in-memory copy.
C3_AllOrNothing ==
    [][last'.res # "Ok" => ico_data' = ico_data]_vars

\* A purchase that had incremented the roster amount and the buyer's balance
\* in memory and then failed for want of the admin's balance entry.
C3_Witness ==
    /\ IsPurchase(last)
    /\ last.res = "InvalidAccountData"
    /\ last.site = "AdminNotFound"
    /\ last.amount > 0
    /\ last.mem.balance # ico_data.balance
    /\ \/ last.mem.pre_sale_account # ico_data.pre_sale_account
       \/ last.mem.sale_account # ico_data.sale_account

\* C4. Purchases are zero-sum: a successful purchase of `amount` adds
\* exactly amount to the buyer's balance, takes exactly amount from the
\* admin's, leaves every other entry and total_supply as they were, and so
\* leaves the sum of all balances unchanged.
C4_PurchaseZeroSum ==
    [][ (IsPurchase(last') /\ last'.res = "Ok") =>
            /\ TotalOf(ico_data'.balance, Buyer)
                 = TotalOf(ico_data.balance, Buyer) + last'.amount
            /\ TotalOf(ico_data'.balance, ico_data.admin)
                 = TotalOf(ico_data.balance, ico_data.admin) - last'.amount
            /\ Len(ico_data'.balance) = Len(ico_data.balance)
            /\ \A i \in 1..Len(ico_data.balance) :
                  /\ ico_data'.balance[i][1] = ico_data.balance[i][1]
                  /\ ico_data.balance[i][1] \notin {Buyer, ico_data.admin}
                        => ico_data'.balance[i] = ico_data.balance[i]
            /\ ico_data'.total_supply = ico_data.total_supply
            /\ SumBalances(ico_data'.balance) = SumBalances(ico_data.balance)
      ]_vars

C7_PreSaleWindow ==
    [][ (Dispatched(last', 2) /\ last'.current_time >= ico_data.sale_start_time)
            => (last'.site = "WindowClosed" /\ last'.res = "InvalidInstructionData")
      ]_vars

\* C8. Public-sale window: a public-sale purchase gets past the window test
\* exactly when current time >= sale_start_time and sale_start_time <
\* sale_end_time; a current time after sale_end_time does not refuse it.
C8_SaleWindow ==
    [][ Dispatched(last', 3) =>
          ( (last'.site = "WindowClosed" /\ last'.res = "InvalidInstructionData")
              <=> ~ ( /\ last'.current_time >= ico_data.sale_start_time
                      /\ ico_data.sale_start_time < ico_data.sale_end_time ) )
      ]_vars

\* A public-sale purchase made after sale_end_time went through.
C8_Witness ==
    /\ Dispatched(last, 3)
    /\ last.res = "Ok"
    /\ last.current_time > ico_data.sale_end_time
    /\ ico_data.sale_start_time > 0

C10_InitializeUnauthorized ==
    [][ (Dispatched(last', 0) /\ last'.target \notin {program_id, "None"})
            => (last'.res = "InvalidAccountData" /\ ico_data' = ico_data)
      ]_vars

\* C11. Initialize effect: on the empty ledger, a successful initialize by
\* the designated identity X sets admin = X, total_supply = 10000,
\* pre_sale_price = 100, pre_sale_limit = 50, sale_price = 200, sale_limit =
\* 100, sale_start_time = 0, sale_end_time = 100 and balance = [(X, 10000)],
\* and leaves total_price_earned and both rosters as they were.
C11_InitializeEffect ==
    [][ ( /\ Dispatched(last', 0)
          /\ last'.target = program_id
          /\ ico_data = EmptyICOAccount )
        => /\ last'.res = "Ok"
           /\ ico_data' =
                [ total_supply       |-> 10000,
                  admin              |-> program_id,
                  balance            |-> << <<program_id, 10000>> >>,
                  pre_sale_price     |-> 100,
                  pre_sale_limit     |-> 50,
                  sale_price         |-> 200,
                  sale_limit         |-> 100,
                  sale_start_time    |-> 0,
                  sale_end_time      |-> 100,
                  total_price_earned |-> ico_data.total_price_earned,
                  pre_sale_account   |-> ico_data.pre_sale_account,
                  sale_account       |-> ico_data.sale_account ]
      ]_vars

\* The first call was an initialize by the program identity on the empty
\* ledger, and it was accepted.
C11_Witness ==
    /\ calls = 1
    /\ Dispatched(last, 0)
    /\ last.target = program_id
    /\ last.site = "Ok"
    /\ ico_data.balance = << <<program_id, 10000>> >>

\* C12. Mint effect and frame: mint(recipient, amount), by any caller and
\* in any state, always succeeds; afterwards the recipient has exactly one
\* balance entry, holding its previous value (0 if absent) plus amount, an
\* entry created by the call is the last of the list, and every other
\* balance entry and every other field of the ledger is unchanged.
C12_MintEffect ==
    [][ ( /\ Dispatched(last', 1)
          /\ last'.target # "None"
          /\ last'.site # "data_slice" )
        => LET key  == last'.target
               old  == ico_data.balance
               new  == ico_data'.balance
               i    == FindBalance(old, key)
               prev == IF i = 0 THEN 0 ELSE old[i][2]
           IN  /\ last'.res = "Ok"
               /\ Cardinality({j \in 1..Len(new) : new[j][1] = key}) = 1
               /\ TotalOf(new, key) = prev + last'.arg
               /\ i = 0 => new = Append(old, <<key, last'.arg>>)
               /\ i # 0 => /\ Len(new) = Len(old)
                           /\ \A j \in 1..Len(old) : j # i => new[j] = old[j]
               /\ [ico_data' EXCEPT !.balance = old] = ico_data
      ]_vars

\* C13. The whitelist toggle is an involution: two consecutive toggle calls
\* on the same identity leave the ledger exactly as it was before the first
\* of them; when the identity has no roster entry, both calls fail with
\* NotFound and neither changes the ledger.
C13_ToggleInvolution ==
    [][ last'.again
        => /\ ico_data' = last.before
           /\ FindAddress(last.before.pre_sale_account, last.target) = 0
                => /\ last.site = "NotFound"
                   /\ last'.site = "NotFound"
                   /\ last.res = "InvalidAccountData"
                   /\ last'.res = "InvalidAccountData"
                   /\ ico_data = last.before
           /\ FindAddress(last.before.pre_sale_account, last.target) # 0
                => /\ last.res = "Ok"
                   /\ last'.res = "Ok"
                   /\ ico_data # last.before
      ]_vars

\* The second of two consecutive toggles of one identity was accepted and
\* changed the stored ledger.
C13_Witness ==
    /\ last.again
    /\ last.res = "Ok"
    /\ ico_data # last.before
    /\ FindAddress(ico_data.pre_sale_account, last.target) # 0

\* C14. Roster bookkeeping: after a successful public-sale purchase the sale
\* roster holds exactly one entry of the buyer, appended by the buyer's
\* first purchase and updated in place by later ones, and its token_amount
\* grew by the purchased amount (so that it is the sum of the buyer's
\* successful public-sale purchases).
C14_SaleRoster ==
    [][ (Dispatched(last', 3) /\ last'.res = "Ok")
        => LET old == ico_data.sale_account
               new == ico_data'.sale_account
               i   == FindAddress(old, Buyer)
           IN  /\ Cardinality({j \in 1..Len(new) : new[j].address = Buyer}) = 1
               /\ i = 0 => /\ Len(new) = Len(old) + 1
                           /\ new[Len(new)].address = Buyer
                           /\ new[Len(new)].token_amount = last'.amount
               /\ i # 0 => /\ Len(new) = Len(old)
                           /\ new[i].token_amount = old[i].token_amount + last'.amount
      ]_vars

\* C15. Owner check first: a call whose storage account is not owned by the
\* program fails with IncorrectProgramId (WrongOwner) whatever the opcode
\* and payload, recognised or not, and leaves the account as it was; with
\* the right owner, an opcode outside 0..4 fails with InvalidInstructionData
\* (InvalidOperation) and leaves the account as it was.
C15_OwnerCheckFirst ==
    [][ /\ last'.owner \notin {program_id, "None"}
            => /\ last'.res = "IncorrectProgramId"
               /\ last'.site = "WrongOwner"
               /\ last'.mem = ico_data
               /\ UNCHANGED <<ico_data, ico_lamports>>
        /\ (last'.owner = program_id /\ last'.op \notin (-1)..4)
            => /\ last'.res = "InvalidInstructionData"
               /\ last'.site = "InvalidOperation"
               /\ UNCHANGED <<ico_data, ico_lamports>>
      ]_vars

\* An unrecognised opcode sent to a storage account of another owner was
\* answered with the owner error, on a ledger that holds balances.
C15_Witness ==
    /\ last.owner = system_owner
    /\ last.op = 5
    /\ last.res = "IncorrectProgramId"
    /\ ico_data.balance # <<>>

\* C16. Fixed supply and admin: once an initialize has been accepted (the
\* ledger has an admin), no later call, whether a mint, a purchase, a
\* toggle, a failed call or another initialize, changes total_supply or
\* admin.
C16_FixedSupplyAndAdmin ==
    [][ ico_data.admin # default_pubkey
        => /\ ico_data'.total_supply = ico_data.total_supply
           /\ ico_data'.admin = ico_data.admin
      ]_vars

\* An initialize was accepted on a ledger that an earlier initialize and a
\* mint to another identity had already filled.
C16_Witness ==
    /\ Dispatched(last, 0)
    /\ last.site = "Ok"
    /\ Len(ico_data.balance) >= 3
    /\ \E i \in 1..Len(ico_data.balance) : ico_data.balance[i][1] # program_id
    /\ ico_data.total_supply = 10000
    /\ ico_data.admin = program_id

\* C17. Precondition order in pre-sale: the checks run as (1) time window,
\* (2) whitelist, (3) payment, (4) buyer balance entry, (5) admin balance
\* entry, and a pre-sale call that returns gives the error of the first of
\* them that fails on the ledger and payment it was given (Ok when none
\* fails).  A non-whitelisted buyer outside the window with a wrong payment
\* gets the window error; a whitelisted buyer inside the window with a
\* wrong payment and no balance entry gets the payment error.
C17_PreSaleCheckOrder ==
    [][ (Dispatched(last', 2) /\ last'.res # "Panic")
        => LET l == last'
               first_failing ==
                   IF PreSaleWindowClosed(ico_data, l.current_time)
                   THEN <<"InvalidInstructionData", "WindowClosed">>
                   ELSE IF ~ is_whiltelisted(ico_data, Buyer)
                   THEN <<"InvalidAccountData", "NotWhitelisted">>
                   ELSE IF l.paid # WrappingMul(l.amount, ico_data.pre_sale_price)
                   THEN <<"InvalidAccountData", "PaymentMismatch">>
                   ELSE IF FindBalance(ico_data.balance, Buyer) = 0
                   THEN <<"InvalidAccountData", "BuyerNotFound">>
                   ELSE IF FindBalance(ico_data.balance, ico_data.admin) = 0
                   THEN <<"InvalidAccountData", "AdminNotFound">>
                   ELSE <<"Ok", "Ok">>
           IN  <<l.res, l.site>> = first_failing
      ]_vars

\* A whitelisted buyer inside the window, with a wrong payment and without
\* a balance entry, was refused on the payment.
C17_Witness ==
    /\ Dispatched(last, 2)
    /\ last.site = "PaymentMismatch"
    /\ ~ PreSaleWindowClosed(ico_data, last.current_time)
    /\ is_whiltelisted(ico_data, Buyer)
    /\ FindBalance(ico_data.balance, Buyer) = 0

\* C18. No admin overdraft: no purchase succeeds for an amount greater than
\* the balance the admin holds when the call arrives, so the admin's
\* balance never wraps below zero.
C18_NoAdminOverdraft ==
    [][ (IsPurchase(last') /\ last'.res = "Ok")
        => LET a == FindBalance(ico_data.balance, ico_data.admin)
           IN  /\ a # 0
               /\ last'.amount <= ico_data.balance[a][2]
               /\ ico_data'.balance[a][2] <= ico_data.balance[a][2]
      ]_vars

\* C19. Rosters are never populated: no operation appends to either roster,
\* so in every state reached from the empty ledger both rosters are empty,
\* every whitelist toggle fails with NotFound and no pre-sale purchase
\* succeeds.
C19_RostersStayEmpty ==
    /\ ico_data.pre_sale_account = <<>>
    /\ ico_data.sale_account = <<>>
    /\ (Dispatched(last, 4) /\ last.target # "None")
         => (last.res = "InvalidAccountData" /\ last.site = "NotFound")
    /\ Dispatched(last, 2) => last.res # "Ok"

\* A toggle for the buyer was refused after that buyer's public-sale
\* purchase had been accepted.
C19_Witness ==
    /\ Dispatched(last, 4)
    /\ last.target = Buyer
    /\ last.site = "NotFound"
    /\ ico_data.total_price_earned > 0
    /\ TotalOf(ico_data.balance, Buyer) >= ico_data.total_supply
    /\ ico_data.total_supply > 0

\* C20. Buyer and amount are not chosen by the caller: in every purchase
\* sent through process_instruction (opcode 2 or 3) the buyer is the first
\* account supplied, the storage account, whatever account follows it; the
\* amount purchased (the first 8 bytes of that account's data) is the
\* total_supply stored when the call arrives; and the cost is debited from
\* the storage account's own lamports, the credit going to the storage
\* account's balance entry.
C20_BuyerIsStorageAccount ==
    [][ IsPurchase(last')
        => LET l   == last'
               old == ico_data.balance
               new == ico_data'.balance
               b   == FindBalance(old, ico_key)
           IN  /\ l.site # "NotEnoughAccountKeys"
               /\ l.site \notin {"WindowClosed", "NotWhitelisted"}
                    => l.amount = ico_data.total_supply
               /\ l.res = "Ok"
                    => /\ l.paid = l.total_cost
                       /\ ico_lamports' = l.paid - l.total_cost
                       /\ b # 0
                       /\ ico_data.admin # ico_key
                            => new[b][2] = WrappingAdd(old[b][2], l.amount)
                       /\ \A i \in 1..Len(old) :
                            old[i][1] \notin {ico_key, ico_data.admin}
                                => new[i] = old[i]
      ]_vars

\* A public-sale purchase sent with a wallet as second account was
\* accepted: the wallet's balance entry is as the mint left it, and the
\* storage account paid and was credited total_supply tokens.
C20_Witness ==
    /\ Dispatched(last, 3)
    /\ last.res = "Ok"
    /\ last.target = other_key
    /\ last.amount = ico_data.total_supply
    /\ last.amount > 0
    /\ ico_lamports = 0
    /\ TotalOf(ico_data.balance, other_key) = 1
    /\ TotalOf(ico_data.balance, ico_key) > last.amount

====
